---- MODULE Spec2Model ----
(***************************************************************************)
(* A model of scripts/apply_migrations.py: the migration runner that       *)
(* resolves a Postgres connection string, enumerates supabase/migrations   *)
(* and executes every selected *.sql file in filename order, stopping at   *)
(* the first failure.                                                      *)
(*                                                                         *)
(* Python strings are TLA+ strings; TLC evaluates Len, SubSeq, \o, Head    *)
(* and Tail on them.  An optional value (None or a value v) is the         *)
(* sequence <<>> or <<v>>.                                                 *)
(***************************************************************************)
EXTENDS Integers, Sequences, FiniteSets, TLC

\* ------------------------------------------------------------------ bounds

\* Longest free-form connection string drawn as an input.
MaxLen == 3
\* Number of directory entries drawn from NamePool.
MaxFiles == 4

\* ------------------------------------------------- Python values and strings

None == <<>>
Some(v) == <<v>>
Val(o) == o[1]
\* Python truthiness of an optional string: None and '' are falsy.
Truthy(o) == o # None /\ Val(o) # ""
\* Python truthiness of an optional integer: None and 0 are falsy.
TruthyInt(o) == o # None /\ Val(o) # 0

At(s, i) == SubSeq(s, i, i)
\* The characters the inputs are drawn over, in ascending code point order.
Ascii == "\t\n\r #&./0123456789:=?@[]_abcdefghijklmnopqrstuvwxyz"
Ord(c) == CHOOSE i \in 1..Len(Ascii) : At(Ascii, i) = c

\* s < t for Python strings: by code point, a proper prefix first.
RECURSIVE StrLess(_, _)
StrLess(s, t) ==
    IF t = "" THEN FALSE
    ELSE IF s = "" THEN TRUE
    ELSE IF Head(s) = Head(t) THEN StrLess(Tail(s), Tail(t))
    ELSE Ord(Head(s)) < Ord(Head(t))

StartsWith(s, p) == Len(s) >= Len(p) /\ SubSeq(s, 1, Len(p)) = p
EndsWith(s, p) == Len(s) >= Len(p) /\ SubSeq(s, Len(s) - Len(p) + 1, Len(s)) = p

\* str.find(c): the first index of character c in s, 0 if there is none.
RECURSIVE FindFrom(_, _, _)
FindFrom(s, c, i) ==
    IF i > Len(s) THEN 0
    ELSE IF At(s, i) = c THEN i
    ELSE FindFrom(s, c, i + 1)
Find(s, c) == FindFrom(s, c, 1)

\* str.rfind(c): the last index of character c in s, 0 if there is none.
RECURSIVE RFindFrom(_, _, _)
RFindFrom(s, c, i) ==
    IF i < 1 THEN 0
    ELSE IF At(s, i) = c THEN i
    ELSE RFindFrom(s, c, i - 1)
RFind(s, c) == RFindFrom(s, c, Len(s))

\* str.partition(c) and str.rpartition(c) as [head, found, tail].
Partition(s, c) ==
    LET i == Find(s, c)
    IN  IF i = 0 THEN [head |-> s, found |-> FALSE, tail |-> ""]
        ELSE [head |-> SubSeq(s, 1, i - 1), found |-> TRUE,
              tail |-> SubSeq(s, i + 1, Len(s))]
RPartition(s, c) ==
    LET i == RFind(s, c)
    IN  IF i = 0 THEN [head |-> "", found |-> FALSE, tail |-> s]
        ELSE [head |-> SubSeq(s, 1, i - 1), found |-> TRUE,
              tail |-> SubSeq(s, i + 1, Len(s))]

\* str.split(c): the pieces of s between the occurrences of c.
RECURSIVE Split(_, _)
Split(s, c) ==
    LET p == Partition(s, c)
    IN  IF p.found THEN <<p.head>> \o Split(p.tail, c) ELSE <<s>>

\* str.replace(c, ''): s without its occurrences of character c.
RECURSIVE Remove(_, _)
Remove(s, c) ==
    IF s = "" THEN ""
    ELSE IF Head(s) = c THEN Remove(Tail(s), c)
    ELSE Head(s) \o Remove(Tail(s), c)

Whitespace == {" ", "\t", "\n", "\r"}
RECURSIVE LStrip(_)
LStrip(s) == IF s # "" /\ Head(s) \in Whitespace THEN LStrip(Tail(s)) ELSE s
RECURSIVE RStrip(_)
RStrip(s) ==
    IF s # "" /\ At(s, Len(s)) \in Whitespace
    THEN RStrip(SubSeq(s, 1, Len(s) - 1)) ELSE s
\* str.strip()
Strip(s) == RStrip(LStrip(s))

\* str.lstrip('/')
RECURSIVE LStripSlash(_)
LStripSlash(s) == IF s # "" /\ Head(s) = "/" THEN LStripSlash(Tail(s)) ELSE s

Digits == {"0", "1", "2", "3", "4", "5", "6", "7", "8", "9"}
IsDigits(s) == s # "" /\ \A i \in 1..Len(s) : At(s, i) \in Digits
RECURSIVE ToInt(_)
ToInt(s) ==
    IF s = "" THEN 0
    ELSE 10 * ToInt(SubSeq(s, 1, Len(s) - 1)) + (Ord(At(s, Len(s))) - Ord("0"))

\* ------------------------------------------------------- normalize_conn

\* Mutant of normalize_conn: only brackets that wrap the stripped string go.
RECURSIVE Unwrap(_)
Unwrap(s) ==
    IF s # "" /\ Head(s) \in {"[", "]"} THEN Unwrap(Tail(s))
    ELSE IF s # "" /\ At(s, Len(s)) \in {"[", "]"}
         THEN Unwrap(SubSeq(s, 1, Len(s) - 1))
    ELSE s
normalize_wrapping(conn) == Unwrap(Strip(conn))

\* normalize_conn: strip the string, then drop every newline, carriage return
\* and square bracket.
normalize_conn(conn) ==
    Remove(Remove(Remove(Remove(Strip(conn), "\n"), "\r"), "["), "]")

\* --------------------------------------------------------- parse_pg_url

DefaultPort == 5432
\* The largest port urllib's u.port accepts.
MaxPort == 65535

\* urlparse(conn) for a string with a scheme followed by "//": the scheme up
\* to the first ":", the netloc up to the first of "/", "?" and "#", then the
\* fragment cut at the first "#" and the query at the first "?".
MinPos(a, b) == IF a = 0 THEN b ELSE IF b = 0 THEN a ELSE IF a < b THEN a ELSE b
urlparse(conn) ==
    LET colon == Find(conn, ":")
        rest == SubSeq(conn, colon + 1, Len(conn))
        hasNetloc == StartsWith(rest, "//")
        delim == MinPos(MinPos(FindFrom(rest, "/", 3), FindFrom(rest, "?", 3)),
                        FindFrom(rest, "#", 3))
        endNet == IF delim = 0 THEN Len(rest) ELSE delim - 1
        netloc == IF hasNetloc THEN SubSeq(rest, 3, endNet) ELSE ""
        afterNet == IF hasNetloc THEN SubSeq(rest, endNet + 1, Len(rest)) ELSE rest
        frag == Partition(afterNet, "#")
        qry == Partition(frag.head, "?")
    IN  [scheme |-> SubSeq(conn, 1, colon - 1), netloc |-> netloc,
         path |-> qry.head, query |-> qry.tail, fragment |-> frag.tail]

\* u.hostname, u.username, u.password: the netloc after its last "@" up to its
\* first ":", and the user information before that "@" cut at its first ":".
HostInfo(u) == RPartition(u.netloc, "@").tail
hostname(u) ==
    LET h == Partition(HostInfo(u), ":").head
    IN  IF h = "" THEN None ELSE Some(h)
username(u) ==
    LET info == RPartition(u.netloc, "@")
    IN  IF info.found THEN Some(Partition(info.head, ":").head) ELSE None
password(u) ==
    LET info == RPartition(u.netloc, "@")
        up == Partition(info.head, ":")
    IN  IF info.found /\ up.found THEN Some(up.tail) ELSE None

\* u.port: None without a port, the number when the text after the first ":"
\* of the host information is decimal and at most 65535; otherwise the
\* property raises ValueError.
PortText(u) == Partition(HostInfo(u), ":").tail
PortRaises(u) ==
    PortText(u) # "" /\ (~IsDigits(PortText(u)) \/ ToInt(PortText(u)) > MaxPort)
port(u) == IF PortText(u) = "" THEN None ELSE Some(ToInt(PortText(u)))

\* parse_qs(query)[key] with the default keep_blank_values=False: the values
\* of the "key=value" fields between "&" whose value is not empty, in order.
RECURSIVE QsValues(_, _)
QsValues(fields, key) ==
    IF fields = <<>> THEN <<>>
    ELSE LET nv == Partition(Head(fields), "=")
             rest == QsValues(Tail(fields), key)
         IN  IF nv.found /\ nv.tail # "" /\ nv.head = key
             THEN <<nv.tail>> \o rest ELSE rest
parse_qs(query, key) == QsValues(Split(query, "&"), key)

\* pick(key, default): the first value of the key, or the default.
pick(q, key, default) ==
    LET v == parse_qs(q, key) IN IF v # <<>> THEN v[1] ELSE default

IsPgUrl(conn) == StartsWith(conn, "postgres://") \/ StartsWith(conn, "postgresql://")

\* The params dictionary of parse_pg_url for a URL whose port can be read.
UrlParams(conn) ==
    LET u == urlparse(conn)
    IN  [host |-> hostname(u),
         port |-> IF TruthyInt(port(u)) THEN Val(port(u)) ELSE DefaultPort,
         dbname |-> IF LStripSlash(u.path) # "" THEN LStripSlash(u.path) ELSE "postgres",
         user |-> username(u),
         password |-> password(u),
         sslmode |-> pick(u.query, "sslmode", "require")]

\* parse_pg_url(conn): None for a string that is no postgres URL, a raised
\* ValueError when u.port cannot be read, the params otherwise.
parse_pg_url(conn) ==
    IF ~IsPgUrl(conn) THEN [kind |-> "none", params |-> None]
    ELSE IF PortRaises(urlparse(conn)) THEN [kind |-> "raise", params |-> None]
    ELSE [kind |-> "params", params |-> Some(UrlParams(conn))]

\* ------------------------------------------------------ load_env_local

EnvKeys == {"SUPABASE_DB_URL", "MIG_ONLY", "MIG_FROM"}

\* load_env_local: every KEY=VALUE pair of .env.scripts.local is assigned to
\* os.environ; a missing file changes nothing.  file is None or the pairs of
\* the file, a key the file does not hold being None.
load_env_local(env, file) ==
    IF file = None THEN env
    ELSE [k \in EnvKeys |-> IF Val(file)[k] # None THEN Val(file)[k] ELSE env[k]]

\* ------------------------------------------------------------ the files

\* migrations_dir.glob('*.sql'): the entries of the directory ending in .sql.
glob(entries) == {n \in entries : EndsWith(n, ".sql")}

\* The least name of a non-empty set of names.
MinName(S) == CHOOSE n \in S : \A m \in S : m = n \/ StrLess(n, m)

\* Mutant of sorted: the names in the order the directory lists them, an
\* order unrelated to the names (here, the order of NamePool).
NamePool == <<"002_b.sql", "001_a.sql", "notes.txt", "010_c.sql", "1.sql">>
RECURSIVE ListingFrom(_, _)
ListingFrom(S, i) ==
    IF i > Len(NamePool) THEN <<>>
    ELSE IF NamePool[i] \in S THEN <<NamePool[i]>> \o ListingFrom(S, i + 1)
    ELSE ListingFrom(S, i + 1)
Listing(S) == ListingFrom(S, 1)

\* sorted(...): the paths of one directory in ascending order of their names.
RECURSIVE sorted(_)
sorted(S) ==
    IF S = {} THEN <<>>
    ELSE <<MinName(S)>> \o sorted(S \ {MinName(S)})

\* Mutant of Skipped: MIG_ONLY set makes the loop ignore MIG_FROM.
SkippedOnlyFirst(f, only, from, isStarted) ==
    IF Truthy(only) THEN f # Val(only) ELSE ~isStarted /\ f # Val(from)

\* Mutant of Skipped: the file named by MIG_FROM is itself passed over.
SkippedExclusive(f, only, from, isStarted) ==
    \/ Truthy(only) /\ f # Val(only)
    \/ Truthy(from) /\ ~StrLess(Val(from), f)

\* The test at the head of the loop body: TRUE when the file is passed over
\* (either "continue"), for the filters and the started flag on entry.
Skipped(f, only, from, isStarted) ==
    \/ Truthy(only) /\ f # Val(only)
    \/ ~isStarted /\ f # Val(from)

\* Mutant of AutocommitSetting: the connection is left in transaction mode.
AutocommitOff == FALSE

\* The value conn_obj.autocommit is set to.
AutocommitSetting == TRUE

\* ------------------------------------------------------------ the state

VARIABLES
    argv1,        \* sys.argv[1], None when the program is given no argument
    environ,      \* os.environ restricted to EnvKeys
    env_local,    \* the pairs of .env.scripts.local, None when there is no file
    dir,          \* the entries of supabase/migrations, None when it is missing
    url_src,      \* the parts argv1 was rendered from, None for a free string
    pc,           \* the position of main
    conn,         \* the normalized connection string
    sql_files,    \* the sorted list of migration files
    connect_arg,  \* what psycopg2.connect was called with, None before the call
    autocommit,   \* conn_obj.autocommit
    opened,       \* number of successful psycopg2.connect calls
    closed,       \* number of conn_obj.close() calls
    mig_only,
    mig_from,
    started,
    idx,          \* the position of the for loop in sql_files
    executed,     \* the files cur.execute was called with, in call order
    applied,      \* database: the files whose effect is committed
    pending,      \* database: the files executed in a transaction still open
    failed,       \* the file whose execution raised, None if none did
    error,        \* why the run ended
    exit_code     \* the exit status of the process, None while it runs

vars == <<argv1, environ, env_local, dir, url_src, pc, conn, sql_files,
          connect_arg, autocommit, opened, closed, mig_only, mig_from, started,
          idx, executed, applied, pending, failed, error, exit_code>>

inputs == <<argv1, env_local, dir, url_src>>
db == <<connect_arg, autocommit, opened, closed, executed, applied, pending, failed>>
loop == <<mig_only, mig_from, started, idx>>

\* ----------------------------------------------------------- the inputs

DirEntries == {NamePool[i] : i \in 1..MaxFiles}
Dirs == {None} \cup {Some(S) : S \in SUBSET DirEntries}
FilterValues ==
    {None, Some(""), Some("zzz.sql")} \cup {Some(n) : n \in glob(DirEntries)}
Env(url, only, from) ==
    [SUPABASE_DB_URL |-> url, MIG_ONLY |-> only, MIG_FROM |-> from]

\* Every string of at most n characters of StringChars.
StringChars == {"a", " ", "\n", "[", "]"}
RECURSIVE Strings(_)
Strings(n) ==
    IF n = 0 THEN {""}
    ELSE Strings(n - 1) \cup {c \o t : c \in StringChars, t \in Strings(n - 1)}
StringHeads == {"", "postgres://h/", "[postgres://h", "postgresql:/"}

\* The parts of a postgres URL and the URL they spell.  A port of None is a
\* URL without ":port"; a query is a sequence of <<key, value>>.
UrlPorts == {None, Some("0"), Some("6543"), Some("5432"), Some("x"), Some("70000")}
UrlQueries ==
    { <<>>, << <<"sslmode", "">> >>, << <<"sslmode", "v">> >>,
      << <<"sslmode", "">>, <<"sslmode", "w">> >>,
      << <<"sslmode", "v">>, <<"sslmode", "w">> >>,
      << <<"x", "v">>, <<"sslmode", "w">> >>, << <<"x", "v">> >> }
UrlParts ==
    [scheme : {"postgres", "postgresql"}, userinfo : {"", "u:p@"}, host : {"h"},
     port : UrlPorts, path : {"", "/", "/d", "//d"}, query : UrlQueries]
RECURSIVE RenderQuery(_)
RenderQuery(q) ==
    IF q = <<>> THEN ""
    ELSE Head(q)[1] \o "=" \o Head(q)[2]
         \o (IF Len(q) > 1 THEN "&" ELSE "") \o RenderQuery(Tail(q))
Render(u) ==
    u.scheme \o "://" \o u.userinfo \o u.host
    \o (IF u.port = None THEN "" ELSE ":" \o Val(u.port))
    \o u.path \o (IF u.query = <<>> THEN "" ELSE "?" \o RenderQuery(u.query))

\* Runs over the directories and the two filters, with a DSN argument.
InitRun ==
    /\ argv1 = Some("host=h")
    /\ env_local = None
    /\ url_src = None
    /\ dir \in Dirs
    /\ \E only \in FilterValues, from \in FilterValues :
          environ = Env(None, only, from)

\* Runs over the sources of the connection string.
InitResolve ==
    /\ argv1 \in {None, Some(""), Some("[]"), Some("host=a")}
    /\ env_local \in {None, Some(Env(Some("host=l"), None, None)),
                      Some(Env(None, Some("001_a.sql"), None)),
                      Some(Env(Some("[ ]"), None, Some("zzz.sql")))}
    /\ url_src = None
    /\ dir \in {None, Some({}), Some({"002_b.sql", "001_a.sql"})}
    /\ \E url \in {None, Some(""), Some(" host=e\n")} :
          environ = Env(url, None, None)

\* Runs over free-form connection strings.
InitString ==
    /\ \E h \in StringHeads, t \in Strings(MaxLen) : argv1 = Some(h \o t)
    /\ env_local = None
    /\ url_src = None
    /\ dir = Some({"001_a.sql"})
    /\ environ = Env(None, None, None)

\* Runs over postgres URLs.
InitUrl ==
    /\ url_src \in {Some(u) : u \in UrlParts}
    /\ argv1 = Some(Render(Val(url_src)))
    /\ env_local = None
    /\ dir = Some({"001_a.sql"})
    /\ environ = Env(None, None, None)

Init ==
    /\ InitRun \/ InitResolve \/ InitString \/ InitUrl
    /\ pc = "resolve"
    /\ conn = ""
    /\ sql_files = <<>>
    /\ connect_arg = None
    /\ autocommit = FALSE
    /\ opened = 0
    /\ closed = 0
    /\ mig_only = None
    /\ mig_from = None
    /\ started = FALSE
    /\ idx = 1
    /\ executed = <<>>
    /\ applied = {}
    /\ pending = {}
    /\ failed = None
    /\ error = "none"
    /\ exit_code = None

\* ----------------------------------------------------------------- main

\* sys.exit(code), or the end of main (the interpreter then exits with 0).
Exit(code, why) ==
    /\ pc' = "exit"
    /\ exit_code' = Some(code)
    /\ error' = why

\* An exception no handler of main catches: the interpreter prints the
\* traceback and exits with status 1.
Uncaught(why) == Exit(1, why)

\* conn_obj.close(): a transaction still open is rolled back.
Close ==
    /\ closed' = closed + 1
    /\ pending' = {}

\* Lines 50-57: the connection string from the argument or, after loading
\* .env.scripts.local, from SUPABASE_DB_URL; without one, exit 2.
Resolve ==
    /\ pc = "resolve"
    /\ environ' = IF ~Truthy(argv1) THEN load_env_local(environ, env_local)
                  ELSE environ
    /\ conn' = normalize_conn(
                 IF Truthy(argv1) THEN Val(argv1)
                 ELSE IF environ'["SUPABASE_DB_URL"] # None
                      THEN Val(environ'["SUPABASE_DB_URL"]) ELSE "")
    /\ IF conn' = "" THEN Exit(2, "usage")
       ELSE pc' = "import" /\ UNCHANGED <<exit_code, error>>
    /\ UNCHANGED <<inputs, sql_files, db, loop>>

\* Lines 59-63: import psycopg2.
ImportOK ==
    /\ pc = "import"
    /\ pc' = "enumerate"
    /\ UNCHANGED <<inputs, environ, conn, sql_files, db, loop, error, exit_code>>

ImportFail ==
    /\ pc = "import"
    /\ Uncaught("import")
    /\ UNCHANGED <<inputs, environ, conn, sql_files, db, loop>>

\* Mutant of Enumerate: no exit when the directory holds no *.sql file.
EnumerateNoEmptyExit ==
    /\ pc = "enumerate"
    /\ IF dir = None
       THEN Exit(1, "nodir") /\ UNCHANGED sql_files
       ELSE /\ sql_files' = sorted(glob(Val(dir)))
            /\ pc' = "connect" /\ UNCHANGED <<exit_code, error>>
    /\ UNCHANGED <<inputs, environ, conn, db, loop>>

\* Mutant of Enumerate: a missing directory ends the run with exit 0.
EnumerateMissingDirOK ==
    /\ pc = "enumerate"
    /\ IF dir = None
       THEN Exit(0, "nodir") /\ UNCHANGED sql_files
       ELSE /\ sql_files' = sorted(glob(Val(dir)))
            /\ IF sql_files' = <<>> THEN Exit(0, "nofiles")
               ELSE pc' = "connect" /\ UNCHANGED <<exit_code, error>>
    /\ UNCHANGED <<inputs, environ, conn, db, loop>>

\* Lines 65-73: the directory must exist (exit 1); no *.sql file in it ends
\* the run with exit 0.
Enumerate ==
    /\ pc = "enumerate"
    /\ IF dir = None
       THEN Exit(1, "nodir") /\ UNCHANGED sql_files
       ELSE /\ sql_files' = sorted(glob(Val(dir)))
            /\ IF sql_files' = <<>> THEN Exit(0, "nofiles")
               ELSE pc' = "connect" /\ UNCHANGED <<exit_code, error>>
    /\ UNCHANGED <<inputs, environ, conn, db, loop>>

\* Line 77: u.port raises ValueError inside parse_pg_url.
ParseRaises ==
    /\ pc = "connect"
    /\ parse_pg_url(conn).kind = "raise"
    /\ Uncaught("port")
    /\ UNCHANGED <<inputs, environ, conn, sql_files, db, loop>>

\* Lines 77-82: connect with the params of a URL or with the string itself,
\* then set autocommit.
ConnectOK ==
    /\ pc = "connect"
    /\ parse_pg_url(conn).kind # "raise"
    /\ connect_arg' = IF parse_pg_url(conn).params # None
                      THEN Some([params |-> parse_pg_url(conn).params, dsn |-> None])
                      ELSE Some([params |-> None, dsn |-> Some(conn)])
    /\ opened' = opened + 1
    /\ autocommit' = AutocommitSetting
    /\ pc' = "cursor"
    /\ UNCHANGED <<inputs, environ, conn, sql_files, closed, executed, applied,
                   pending, failed, loop, error, exit_code>>

\* Lines 79, 81: psycopg2.connect raises.
ConnectFail ==
    /\ pc = "connect"
    /\ parse_pg_url(conn).kind # "raise"
    /\ Uncaught("connect")
    /\ UNCHANGED <<inputs, environ, conn, sql_files, db, loop>>

\* Lines 83-87: the cursor, then the filters and the started flag.
CursorOK ==
    /\ pc = "cursor"
    /\ mig_only' = environ["MIG_ONLY"]
    /\ mig_from' = environ["MIG_FROM"]
    /\ started' = ~Truthy(mig_from')
    /\ idx' = 1
    /\ pc' = "loop"
    /\ UNCHANGED <<inputs, environ, conn, sql_files, db, error, exit_code>>

\* Line 83: conn_obj.cursor() raises.
CursorFail ==
    /\ pc = "cursor"
    /\ Uncaught("cursor")
    /\ UNCHANGED <<inputs, environ, conn, sql_files, db, loop>>

InLoop == pc = "loop" /\ idx <= Len(sql_files)

\* Lines 89-96: the file is passed over.
Skip ==
    /\ InLoop
    /\ Skipped(sql_files[idx], mig_only, mig_from, started)
    /\ idx' = idx + 1
    /\ UNCHANGED <<inputs, environ, pc, conn, sql_files, db, mig_only, mig_from,
                   started, error, exit_code>>

\* Lines 89-98: the file is selected and f.read_text raises.
ReadFail ==
    /\ InLoop
    /\ ~Skipped(sql_files[idx], mig_only, mig_from, started)
    /\ started' = TRUE
    /\ Uncaught("read")
    /\ UNCHANGED <<inputs, environ, conn, sql_files, db, mig_only, mig_from, idx>>

\* Lines 89-101: the file is selected, read and executed; in autocommit mode
\* its effect is committed at once.
ApplyOK ==
    /\ InLoop
    /\ ~Skipped(sql_files[idx], mig_only, mig_from, started)
    /\ started' = TRUE
    /\ executed' = Append(executed, sql_files[idx])
    /\ IF autocommit
       THEN applied' = applied \cup {sql_files[idx]} /\ UNCHANGED pending
       ELSE pending' = pending \cup {sql_files[idx]} /\ UNCHANGED applied
    /\ idx' = idx + 1
    /\ UNCHANGED <<inputs, environ, pc, conn, sql_files, connect_arg, autocommit,
                   opened, closed, failed, mig_only, mig_from, error, exit_code>>

\* Mutant of ApplyFail: the error is reported and the loop goes on.
ApplyFailContinues ==
    /\ InLoop
    /\ ~Skipped(sql_files[idx], mig_only, mig_from, started)
    /\ started' = TRUE
    /\ executed' = Append(executed, sql_files[idx])
    /\ failed' = Some(sql_files[idx])
    /\ idx' = idx + 1
    /\ UNCHANGED <<inputs, environ, pc, conn, sql_files, connect_arg, autocommit,
                   opened, closed, applied, pending, mig_only, mig_from, error,
                   exit_code>>

\* Lines 89-107: cur.execute raises; the statement leaves no effect, the
\* cursor and the connection are closed and the run exits with 1.
ApplyFail ==
    /\ InLoop
    /\ ~Skipped(sql_files[idx], mig_only, mig_from, started)
    /\ started' = TRUE
    /\ executed' = Append(executed, sql_files[idx])
    /\ failed' = Some(sql_files[idx])
    /\ Close
    /\ Exit(1, "execute")
    /\ UNCHANGED <<inputs, environ, conn, sql_files, connect_arg, autocommit,
                   opened, applied, mig_only, mig_from, idx>>

\* Lines 109-111: after the last file the cursor and the connection are
\* closed and main returns.
Finish ==
    /\ pc = "loop"
    /\ idx > Len(sql_files)
    /\ Close
    /\ Exit(0, "none")
    /\ UNCHANGED <<inputs, environ, conn, sql_files, connect_arg, autocommit,
                   opened, executed, applied, failed, loop>>

Next ==
    \/ Resolve
    \/ ImportOK
    \/ ImportFail
    \/ Enumerate
    \/ ParseRaises
    \/ ConnectOK
    \/ ConnectFail
    \/ CursorOK
    \/ CursorFail
    \/ Skip
    \/ ReadFail
    \/ ApplyOK
    \/ ApplyFail
    \/ Finish

Spec == Init /\ [][Next]_vars

\* ------------------------------------------------------------ the claims

Range(q) == {q[i] : i \in 1..Len(q)}
Ascending(q) == \A i \in 1..(Len(q) - 1) : StrLess(q[i], q[i + 1])
Terminated == pc = "exit"
\* The *.sql files of the migrations directory.
SqlFiles == IF dir = None THEN {} ELSE glob(Val(dir))
\* The connection string the run resolves, before normalization.
RawConn ==
    IF Truthy(argv1) THEN Val(argv1)
    ELSE IF environ["SUPABASE_DB_URL"] # None
         THEN Val(environ["SUPABASE_DB_URL"]) ELSE ""

\* C1: in every state of every run the files executed so far are *.sql files
\* of the directory in strictly ascending order of their names, so that no
\* file is executed twice or before a file whose name sorts lower.
C1_AscendingOnce ==
    /\ Ascending(executed)
    /\ Range(executed) \subseteq SqlFiles

\* A finished run that executed three files the directory lists in another order.
C1_Witness ==
    /\ Terminated
    /\ executed = <<"001_a.sql", "002_b.sql", "010_c.sql">>

\* C2: once the execution of a file has raised, that file is the last one
\* executed, no file sorting after it has been executed, and the process has
\* terminated with a non-zero exit code.
C2_StopsAtFailure ==
    failed # None =>
        /\ Terminated
        /\ exit_code \notin {None, Some(0)}
        /\ executed[Len(executed)] = Val(failed)
        /\ \A f \in Range(executed) : ~StrLess(Val(failed), f)

\* The second of three selected files failed, one file still ahead.
C2_Witness ==
    /\ failed = Some("002_b.sql")
    /\ executed = <<"001_a.sql", "002_b.sql">>
    /\ sql_files = <<"001_a.sql", "002_b.sql", "010_c.sql">>
    /\ ~Truthy(mig_only)

\* C3: the connection is opened at most once, and a run that opened it has
\* closed it exactly once when the process has terminated.
C3_ClosedOnEveryExit ==
    /\ opened <= 1
    /\ (Terminated /\ opened = 1) => closed = 1

\* MIG_ONLY names a *.sql file of the directory and the run has reached the
\* end of the loop or stopped at a failing execution.
OnlyCase ==
    /\ Terminated
    /\ error \in {"none", "execute"}
    /\ Truthy(environ["MIG_ONLY"])
    /\ Val(environ["MIG_ONLY"]) \in SqlFiles

\* C4 as claimed: with MIG_ONLY naming a *.sql file of the directory, a run
\* that reaches the end of the loop or stops at a failing execution has
\* executed exactly that file, whatever MIG_FROM is.
C4_OnlyWhateverFrom ==
    OnlyCase => executed = <<Val(environ["MIG_ONLY"])>>

\* C4 as amended: with MIG_ONLY naming a *.sql file of the directory no other
\* file is ever executed; a run that reaches the end of the loop or stops at a
\* failing execution has executed exactly that file when MIG_FROM is unset,
\* empty or the same name, and no file at all for any other MIG_FROM.
C4_OnlyUnlessOtherFrom ==
    /\ Truthy(environ["MIG_ONLY"])
          => Range(executed) \subseteq {Val(environ["MIG_ONLY"])}
    /\ OnlyCase =>
          executed = IF \/ ~Truthy(environ["MIG_FROM"])
                        \/ environ["MIG_FROM"] = environ["MIG_ONLY"]
                     THEN <<Val(environ["MIG_ONLY"])>> ELSE <<>>

\* MIG_ONLY names a file of the directory, MIG_FROM an earlier one: nothing ran.
C4_Witness ==
    /\ OnlyCase
    /\ environ["MIG_ONLY"] = Some("002_b.sql")
    /\ environ["MIG_FROM"] = Some("001_a.sql")
    /\ "001_a.sql" \in SqlFiles
    /\ executed = <<>>

\* The files at or after the first file named from, none if no file has
\* that name.
FromSet(from) ==
    IF from \in SqlFiles
    THEN {f \in SqlFiles : f = from \/ StrLess(from, f)} ELSE {}
FromCase ==
    /\ Terminated
    /\ exit_code = Some(0)
    /\ environ["MIG_ONLY"] = None

\* C5 as claimed: with MIG_FROM set and MIG_ONLY unset, a run that ends
\* without a failure has executed, in sorted order, exactly the files at or
\* after the file named MIG_FROM, and no file if no file has that name.
C5_FromSet ==
    (FromCase /\ environ["MIG_FROM"] # None) =>
        /\ Ascending(executed)
        /\ Range(executed) = FromSet(Val(environ["MIG_FROM"]))

\* C5 as amended: the same for MIG_FROM set to a non-empty value (an empty
\* MIG_FROM is treated as unset).
C5_FromNonEmpty ==
    (FromCase /\ Truthy(environ["MIG_FROM"])) =>
        /\ Ascending(executed)
        /\ Range(executed) = FromSet(Val(environ["MIG_FROM"]))

\* MIG_FROM names the second of three files: the last two ran, in order.
C5_Witness ==
    /\ FromCase
    /\ environ["MIG_FROM"] = Some("002_b.sql")
    /\ SqlFiles = {"001_a.sql", "002_b.sql", "010_c.sql"}
    /\ executed = <<"002_b.sql", "010_c.sql">>

\* A run that got as far as looking at a directory without any *.sql file.
EmptyDirCase ==
    /\ Terminated
    /\ error \notin {"usage", "import"}
    /\ dir # None
    /\ SqlFiles = {}

\* C6 as claimed: a run over an existing directory without *.sql files ends
\* with exit code 0 and has opened the database connection.
C6_EmptyDirConnects ==
    EmptyDirCase => exit_code = Some(0) /\ opened = 1

\* C6 as amended: such a run ends with exit code 0 and never opens the
\* connection (the exit precedes the connect step).
C6_EmptyDirNoConnect ==
    EmptyDirCase => exit_code = Some(0) /\ opened = 0 /\ connect_arg = None

\* A directory holding only a file that is no *.sql file.
C6_Witness ==
    /\ EmptyDirCase
    /\ dir = Some({"notes.txt"})
    /\ exit_code = Some(0)

\* The usage error precedes the directory check and any connection.
UsageFirst ==
    exit_code = Some(2) => opened = 0 /\ sql_files = <<>> /\ error = "usage"

\* C7 as claimed: at termination the exit code is 2 exactly when the
\* normalized connection string is empty, 1 exactly when the directory is
\* missing or a file's execution failed, and 0 otherwise; a usage error
\* precedes the directory check and any connection.
C7_ExitCodes ==
    Terminated =>
        /\ exit_code \in {Some(0), Some(1), Some(2)}
        /\ exit_code = Some(2) <=> normalize_conn(RawConn) = ""
        /\ exit_code = Some(1) <=>
              /\ normalize_conn(RawConn) # ""
              /\ dir = None \/ failed # None
        /\ UsageFirst

\* C7 as amended: exit code 1 also when an exception escapes main: the
\* import of the driver, the port of the URL, the connect call, the cursor or
\* the read of a file.
C7_ExitCodesWithUncaught ==
    Terminated =>
        /\ exit_code \in {Some(0), Some(1), Some(2)}
        /\ exit_code = Some(2) <=> normalize_conn(RawConn) = ""
        /\ exit_code = Some(1) <=>
              /\ normalize_conn(RawConn) # ""
              /\ \/ dir = None
                 \/ failed # None
                 \/ error \in {"import", "port", "connect", "cursor", "read"}
        /\ UsageFirst

\* psycopg2.connect raised with the directory in place: exit code 1.
C7_Witness ==
    /\ Terminated
    /\ error = "connect"
    /\ dir # None
    /\ exit_code = Some(1)

\* What the claim expects of the descriptor of the URL spelled from parts u.
RECURSIVE FirstSslmode(_)
FirstSslmode(q) ==
    IF q = <<>> THEN "require"
    ELSE IF Head(q)[1] = "sslmode" THEN Head(q)[2]
    ELSE FirstSslmode(Tail(q))
ExpectedPort(u) == IF u.port = None THEN DefaultPort ELSE ToInt(Val(u.port))
\* The path after its leading slashes (a path such as "//d" loses both).
ExpectedDbname(u) ==
    LET first == {i \in 1..Len(u.path) : At(u.path, i) # "/"}
        p == IF first = {} THEN ""
             ELSE SubSeq(u.path, CHOOSE i \in first : \A j \in first : i <= j,
                         Len(u.path))
    IN  IF p = "" THEN "postgres" ELSE p

\* C8: for a postgres URL the descriptor handed to connect has the explicit
\* port of the URL or 5432, the first sslmode parameter or "require", and the
\* path without its leading slash or "postgres".
C8_Descriptor ==
    (url_src # None /\ connect_arg # None) =>
        LET params == Val(Val(connect_arg).params)
        IN  /\ params.port = ExpectedPort(Val(url_src))
            /\ params.sslmode = FirstSslmode(Val(url_src).query)
            /\ params.dbname = ExpectedDbname(Val(url_src))

\* The string s between its first and last character that is no whitespace,
\* without its newlines, carriage returns and square brackets.
RECURSIVE Without(_, _)
Without(s, cs) ==
    IF s = "" THEN ""
    ELSE (IF Head(s) \in cs THEN "" ELSE Head(s)) \o Without(Tail(s), cs)
Trimmed(s) ==
    LET ink == {i \in 1..Len(s) : At(s, i) \notin Whitespace}
    IN  IF ink = {} THEN ""
        ELSE SubSeq(s, CHOOSE i \in ink : \A j \in ink : i <= j,
                       CHOOSE i \in ink : \A j \in ink : i >= j)
Cleaned(s) == Without(Trimmed(s), {"\n", "\r", "[", "]"})
\* The string s without the square brackets that wrap it.
RECURSIVE Unwrapped(_)
Unwrapped(s) ==
    IF Len(s) >= 2 /\ Head(s) = "[" /\ At(s, Len(s)) = "]"
    THEN Unwrapped(SubSeq(s, 2, Len(s) - 1)) ELSE s

\* C9 as claimed: a connection string that does not begin with postgres://
\* or postgresql:// reaches connect as the string itself without the brackets
\* that wrap it, and never as a descriptor.
C9_PassThrough ==
    (connect_arg # None /\ ~IsPgUrl(RawConn)) =>
        connect_arg = Some([params |-> None, dsn |-> Some(Unwrapped(RawConn))])

\* C9 as amended: the string is first stripped of leading and trailing
\* whitespace and then loses every newline, carriage return and square
\* bracket wherever it stands; if the result does not begin with postgres://
\* or postgresql:// it reaches connect as it is, and otherwise a descriptor
\* does.
C9_Normalized ==
    connect_arg # None =>
        IF IsPgUrl(Cleaned(RawConn))
        THEN Val(connect_arg).params # None /\ Val(connect_arg).dsn = None
        ELSE connect_arg = Some([params |-> None, dsn |-> Some(Cleaned(RawConn))])

\* A bracket inside the string is dropped on the way to connect.
C9_Witness ==
    /\ argv1 = Some("a[a")
    /\ connect_arg = Some([params |-> None, dsn |-> Some("aa")])

\* The files the two filters select: the file named by MIG_ONLY if it is
\* set, and from the file named by MIG_FROM on if that is set.
Selected ==
    {f \in Range(sql_files) :
        /\ Truthy(mig_only) => f = Val(mig_only)
        /\ Truthy(mig_from) =>
              /\ Val(mig_from) \in Range(sql_files)
              /\ ~StrLess(f, Val(mig_from))
              /\ Truthy(mig_only) => mig_only = mig_from}

\* C10: every file executed without an error is committed at once and stays
\* committed; when a run has stopped at a failing file, the committed
\* migrations are exactly the selected files sorting before it, and nothing
\* is left uncommitted.
C10_CommittedPrefix ==
    /\ pending = {}
    /\ applied = {f \in Range(executed) : Some(f) # failed}
    /\ failed # None => applied = {f \in Selected : StrLess(f, Val(failed))}

\* The third file failed after two were committed.
C10_Witness ==
    /\ failed = Some("010_c.sql")
    /\ applied = {"001_a.sql", "002_b.sql"}
    /\ Terminated

====
